---- MODULE Spec2Model ----
(***************************************************************************)
(* The Poseidon duplex sponge of src/src/poseidon/mod.rs: the permutation  *)
(* (ARK, S-box, MDS over a prime field), the absorb/squeeze state machine  *)
(* with its mode tag, and the byte and bit output adapters.                *)
(*                                                                         *)
(* Vectors are 1-based sequences here and 0-based in the source: source    *)
(* index k is sequence index k + 1.  Indices recorded in the event log     *)
(* are the source's 0-based indices.                                       *)
(***************************************************************************)
EXTENDS Integers, Sequences, FiniteSets, TLC

\* ------------------------------------------------------------------ bounds

\* Modulus of the small field (3 bits: no whole byte fits in an element).
SmallModulus == 5
\* Modulus of the wide field (10 bits, so that one element yields one whole
\* byte and nine bits).
WideModulus == 521
\* Modulus of a field whose capacity is one whole byte (8 bits).
ByteModulus == 257
\* Longest sequence of field elements handed to one absorb call.
MaxAbsorbLen == 3
\* Largest count asked of squeeze_native_field_elements.
MaxSqueeze == 4
\* Largest count asked of squeeze_bytes.
MaxBytes == 3
\* Largest count asked of squeeze_bits.
MaxBits == 4
\* Work done on one sponge: every call costs one plus the number of field
\* elements it absorbs or of elements, bytes or bits it is asked for.
MaxWork == 6

\* Width in bits of the model's usize (64 in the source's targets).
UsizeBits == 3
\* Most rows of a matrix handed to PoseidonParameters::new.
MaxRows == 3

\* Field elements offered to absorb.
InputElems == {1, 2}

\* ------------------------------------------------------------- sequences

Take(s, n) == SubSeq(s, 1, n)

Drop(s, n) == SubSeq(s, n + 1, Len(s))

\* Statement order: v is evaluated first, then F runs on its value.
Then(v, F(_)) == CHOOSE r \in {F(x) : x \in {v}} : TRUE

RECURSIVE SeqsUpTo(_, _)
SeqsUpTo(S, n) ==
  IF n = 0 THEN {<<>>}
  ELSE LET shorter == SeqsUpTo(S, n - 1)
       IN shorter \cup {Append(s, x) : s \in {t \in shorter : Len(t) = n - 1}, x \in S}

\* The inputs offered to absorb, already converted to field elements.
Inputs == SeqsUpTo(InputElems, MaxAbsorbLen)

\* ------------------------------------------------------------ the field

\* F::Params::MODULUS_BITS: the bit length of the modulus.
RECURSIVE BitLength(_)
BitLength(m) == IF m = 0 THEN 0 ELSE 1 + BitLength(m \div 2)

\* F::Params::CAPACITY: the number of bits that always fit below the modulus.
CAPACITY(par) == BitLength(par.modulus) - 1

\* elem.pow(&[e])
RECURSIVE pow(_, _, _)
pow(par, x, e) == IF e = 0 THEN 1 % par.modulus ELSE (x * pow(par, x, e - 1)) % par.modulus

\* elem.into_repr().to_bits_le(): the 64 bits of the one-limb integer
\* representative, least significant first.  Every value of the model is
\* below 2^31, so the bits from 31 up are zero.
to_bits_le(x) == [i \in 1..64 |-> IF i > 31 THEN 0 ELSE (x \div 2^(i - 1)) % 2]

\* Mutant of to_bytes_le: the bytes most significant first.
to_bytes_be(x) == [i \in 1..8 |-> IF i < 5 THEN 0 ELSE (x \div 256^(8 - i)) % 256]

\* elem.into_repr().to_bytes_le(): the 8 bytes of the one-limb integer
\* representative, least significant first.
to_bytes_le(x) == [i \in 1..8 |-> IF i > 4 THEN 0 ELSE (x \div 256^(i - 1)) % 256]

\* ------------------------------------------------------------ parameters

\* Round keys and MDS matrix shared by the parameter sets below (width 3,
\* three rounds); entries are below every modulus used.
ArkRows == << <<1, 2, 3>>, <<2, 0, 1>>, <<3, 1, 4>> >>

MdsRows == << <<1, 1, 1>>, <<1, 2, 4>>, <<1, 3, 2>> >>

PoseidonParameters(modulus, rate, capacity) ==
  [ modulus        |-> modulus,
    full_rounds    |-> 2,
    partial_rounds |-> 1,
    alpha          |-> 3,
    ark            |-> ArkRows,
    mds            |-> MdsRows,
    rate           |-> rate,
    capacity       |-> capacity ]

SmallParameters ==
  { PoseidonParameters(SmallModulus, 2, 1), PoseidonParameters(SmallModulus, 1, 2) }

\* Round keys for the parameter sets with other round counts (width 3, up
\* to five rounds).
ArkTable == ArkRows \o << <<4, 3, 0>>, <<0, 2, 2>> >>

\* Parameters of rate 2 and capacity 1 with the given round counts.
RoundParameters(modulus, full_rounds, partial_rounds) ==
  [ PoseidonParameters(modulus, 2, 1) EXCEPT
      !.full_rounds    = full_rounds,
      !.partial_rounds = partial_rounds,
      !.ark            = SubSeq(ArkTable, 1, full_rounds + partial_rounds) ]

\* The largest usize.
usize_max == 2^UsizeBits - 1

\* a + b over usize: a build with overflow checks (the debug profile) panics
\* when the sum overflows, a build without them (the release profile) wraps.
usize_add(overflow_checks, a, b) ==
  IF a + b <= usize_max THEN [panicked |-> FALSE, value |-> a + b]
  ELSE IF overflow_checks THEN [panicked |-> TRUE, value |-> 0]
  ELSE [panicked |-> FALSE, value |-> (a + b) % (usize_max + 1)]

\* A failed assert_eq! (or an overflow panic): nothing is returned.
Panicked == [panicked |-> TRUE, value |-> <<>>]

Returned(v) == [panicked |-> FALSE, value |-> v]

\* PoseidonParameters::new: the four assert_eq! in source order, the sums
\* computed where the source computes them (the one of the first loop only
\* when ark has a row).
PoseidonParameters_new(overflow_checks, full_rounds, partial_rounds, alpha, mds, ark, rate, capacity) ==
  LET rounds == usize_add(overflow_checks, full_rounds, partial_rounds)
      width  == usize_add(overflow_checks, rate, capacity)
  IN IF rounds.panicked \/ Len(ark) # rounds.value THEN Panicked
     ELSE IF ark # <<>> /\ (width.panicked \/ \E i \in 1..Len(ark) : Len(ark[i]) # width.value)
     THEN Panicked
     ELSE IF width.panicked \/ Len(mds) # width.value THEN Panicked
     ELSE IF \E i \in 1..Len(mds) : Len(mds[i]) # width.value THEN Panicked
     ELSE Returned([ full_rounds    |-> full_rounds,
                     partial_rounds |-> partial_rounds,
                     alpha          |-> alpha,
                     mds            |-> mds,
                     ark            |-> ark,
                     rate           |-> rate,
                     capacity       |-> capacity ])

WideParameters ==
  { PoseidonParameters(WideModulus, 2, 1), PoseidonParameters(ByteModulus, 2, 1) }

\* --------------------------------------------------------- the sponge mode

Absorbing(i) == [tag |-> "Absorbing", idx |-> i]

Squeezing(i) == [tag |-> "Squeezing", idx |-> i]

\* ------------------------------------------------------------ event log

\* One entry per permutation, per addition into state[at] and per copy out
\* of state[at], in the order the code performs them.
Permuted == [ev |-> "permute", at |-> -1]

Added(k) == [ev |-> "add", at |-> k]

Read(k) == [ev |-> "read", at |-> k]

\* ---------------------------------------------------------- permutation

\* for elem in state { *elem = elem.pow(&[alpha]) }, over the first n elements.
RECURSIVE s_box_all(_, _, _)
s_box_all(par, state, n) ==
  IF n = 0 THEN <<>>
  ELSE Append(s_box_all(par, state, n - 1), pow(par, state[n], par.alpha))

apply_s_box(par, state, is_full_round) ==
  IF is_full_round
  THEN s_box_all(par, state, Len(state))
  ELSE [state EXCEPT ![1] = pow(par, state[1], par.alpha)]

\* for (i, state_elem) in state { state_elem += ark[round_number][i] }, over
\* the first n elements.
RECURSIVE ark_all(_, _, _, _)
ark_all(par, state, round_number, n) ==
  IF n = 0 THEN <<>>
  ELSE Append(ark_all(par, state, round_number, n - 1),
              (state[n] + par.ark[round_number + 1][n]) % par.modulus)

apply_ark(par, state, round_number) == ark_all(par, state, round_number, Len(state))

\* cur: the sum of state[j] * mds[i][j] over the first j elements.
RECURSIVE mds_row(_, _, _, _)
mds_row(par, state, i, j) ==
  IF j = 0 THEN 0
  ELSE (mds_row(par, state, i, j - 1) + state[j] * par.mds[i][j]) % par.modulus

\* new_state after its first n pushes; every row reads the old state.
RECURSIVE mds_rows(_, _, _)
mds_rows(par, state, n) ==
  IF n = 0 THEN <<>>
  ELSE Append(mds_rows(par, state, n - 1), mds_row(par, state, n, Len(state)))

\* Mutant of apply_mds: the rows are written into the state as they are
\* computed, without the scratch vector.
RECURSIVE mds_in_place(_, _, _)
mds_in_place(par, state, n) ==
  IF n = 0 THEN state
  ELSE LET before == mds_in_place(par, state, n - 1)
       IN [before EXCEPT ![n] = mds_row(par, before, n, Len(state))]

apply_mds_in_place(par, state) == mds_in_place(par, state, Len(state))

\* Mutant of apply_mds: one row too few is pushed.
apply_mds_short(par, state) == mds_rows(par, state, Len(state) - 1)

apply_mds(par, state) == mds_rows(par, state, Len(state))

\* One ARK, S-box, MDS round.
round(par, state, i, is_full_round) ==
  apply_mds(par, apply_s_box(par, apply_ark(par, state, i), is_full_round))

\* for i in from..to { round }
RECURSIVE rounds(_, _, _, _, _)
rounds(par, state, from, to, is_full_round) ==
  IF from >= to THEN state
  ELSE Then(round(par, state, from, is_full_round),
            LAMBDA s : rounds(par, s, from + 1, to, is_full_round))

\* The values i takes in for i in from..to.
range(from, to) == [k \in 1..(IF to > from THEN to - from ELSE 0) |-> from + k - 1]

\* The round numbers permute hands to apply_ark, in the order of its three
\* loops.
round_numbers(par) ==
  LET full_rounds_over_2 == par.full_rounds \div 2
  IN range(0, full_rounds_over_2)
       \o range(full_rounds_over_2, full_rounds_over_2 + par.partial_rounds)
       \o range(full_rounds_over_2 + par.partial_rounds, par.partial_rounds + par.full_rounds)

permute(par, state) ==
  LET full_rounds_over_2 == par.full_rounds \div 2
      first  == rounds(par, state, 0, full_rounds_over_2, TRUE)
      middle == rounds(par, first, full_rounds_over_2,
                       full_rounds_over_2 + par.partial_rounds, FALSE)
  IN rounds(par, middle, full_rounds_over_2 + par.partial_rounds,
            par.partial_rounds + par.full_rounds, TRUE)

\* ------------------------------------------------------ absorb / squeeze

\* Mutant of absorb_slot: the capacity offset is left out.
absorb_slot_no_capacity(par, rate_start_index, i) == i + rate_start_index

\* The slot absorb_internal adds element i of a chunk into.
absorb_slot(par, rate_start_index, i) == par.capacity + i + rate_start_index

\* for (i, element) in elements { state[slot(i)] += element }, from element i on.
RECURSIVE add_from(_, _, _, _, _)
add_from(par, state, rate_start_index, elements, i) ==
  IF i >= Len(elements) THEN state
  ELSE add_from(par,
                [state EXCEPT ![absorb_slot(par, rate_start_index, i) + 1] =
                                 (@ + elements[i + 1]) % par.modulus],
                rate_start_index, elements, i + 1)

add_chunk(par, state, rate_start_index, elements) ==
  add_from(par, state, rate_start_index, elements, 0)

add_events(par, rate_start_index, n) ==
  [i \in 1..n |-> Added(absorb_slot(par, rate_start_index, i - 1))]

\* Mutant of absorb_internal: a chunk that fills the block exactly is not
\* taken as the last one (< for <=), so the permutation is not deferred.
RECURSIVE absorb_internal_eager(_, _, _, _, _)
absorb_internal_eager(par, state, rate_start_index, remaining_elements, log) ==
  IF rate_start_index + Len(remaining_elements) < par.rate
  THEN [ state |-> add_chunk(par, state, rate_start_index, remaining_elements),
         mode  |-> Absorbing(rate_start_index + Len(remaining_elements)),
         log   |-> log \o add_events(par, rate_start_index, Len(remaining_elements)) ]
  ELSE LET num_elements_absorbed == par.rate - rate_start_index
           added == add_chunk(par, state, rate_start_index,
                              Take(remaining_elements, num_elements_absorbed))
       IN Then(permute(par, added),
               LAMBDA s : absorb_internal_eager(
                 par, s, 0, Drop(remaining_elements, num_elements_absorbed),
                 log \o add_events(par, rate_start_index, num_elements_absorbed)
                     \o <<Permuted>>))

RECURSIVE absorb_internal(_, _, _, _, _)
absorb_internal(par, state, rate_start_index, remaining_elements, log) ==
  IF rate_start_index + Len(remaining_elements) <= par.rate
  THEN [ state |-> add_chunk(par, state, rate_start_index, remaining_elements),
         mode  |-> Absorbing(rate_start_index + Len(remaining_elements)),
         log   |-> log \o add_events(par, rate_start_index, Len(remaining_elements)) ]
  ELSE LET num_elements_absorbed == par.rate - rate_start_index
           added == add_chunk(par, state, rate_start_index,
                              Take(remaining_elements, num_elements_absorbed))
       IN Then(permute(par, added),
               LAMBDA s : absorb_internal(
                 par, s, 0, Drop(remaining_elements, num_elements_absorbed),
                 log \o add_events(par, rate_start_index, num_elements_absorbed)
                     \o <<Permuted>>))

\* Mutant of squeeze_slot: the rate index the chunk starts at is left out.
squeeze_slot_from_zero(par, rate_start_index, i) == par.capacity + i

\* The slot squeeze_internal copies element i of a chunk from.
squeeze_slot(par, rate_start_index, i) == par.capacity + i + rate_start_index

\* output[..n].clone_from_slice(&state[slot(0) .. slot(n)])
read_chunk(par, state, rate_start_index, n) ==
  SubSeq(state, squeeze_slot(par, rate_start_index, 0) + 1,
                squeeze_slot(par, rate_start_index, n))

read_events(par, rate_start_index, n) ==
  [i \in 1..n |-> Read(squeeze_slot(par, rate_start_index, 0) + i - 1)]

\* Mutant of permute_between_blocks: the test is inverted (== for !=).
permute_between_blocks_inverted(par, len) == len = par.rate

\* Mutant of permute_between_blocks: the permutation is never skipped.
permute_between_blocks_always(par, len) == TRUE

\* Whether squeeze_internal permutes after a chunk that did not finish the
\* request; len is output_remaining.len() before the chunk is cut off.
permute_between_blocks(par, len) == len # par.rate

\* Mutant of squeeze_internal: the next index is taken from the length of
\* the whole output instead of the remaining one.
RECURSIVE squeeze_internal_total(_, _, _, _, _, _)
squeeze_internal_total(par, state, rate_start_index, len, out, log) ==
  IF rate_start_index + len <= par.rate
  THEN [ state |-> state,
         mode  |-> Squeezing(rate_start_index + Len(out) + len),
         out   |-> out \o read_chunk(par, state, rate_start_index, len),
         log   |-> log \o read_events(par, rate_start_index, len) ]
  ELSE LET num_elements_squeezed == par.rate - rate_start_index
           chunk == read_chunk(par, state, rate_start_index, num_elements_squeezed)
           evs   == read_events(par, rate_start_index, num_elements_squeezed)
       IN IF permute_between_blocks(par, len)
          THEN Then(permute(par, state),
                    LAMBDA s : squeeze_internal_total(par, s, 0, len - num_elements_squeezed,
                                                out \o chunk, log \o evs \o <<Permuted>>))
          ELSE squeeze_internal_total(par, state, 0, len - num_elements_squeezed,
                                out \o chunk, log \o evs)

\* Mutant of squeeze_internal: a request that ends exactly on the block
\* boundary is not taken as fitting (< for <=).
RECURSIVE squeeze_internal_strict(_, _, _, _, _, _)
squeeze_internal_strict(par, state, rate_start_index, len, out, log) ==
  IF rate_start_index + len < par.rate
  THEN [ state |-> state,
         mode  |-> Squeezing(rate_start_index + len),
         out   |-> out \o read_chunk(par, state, rate_start_index, len),
         log   |-> log \o read_events(par, rate_start_index, len) ]
  ELSE LET num_elements_squeezed == par.rate - rate_start_index
           chunk == read_chunk(par, state, rate_start_index, num_elements_squeezed)
           evs   == read_events(par, rate_start_index, num_elements_squeezed)
       IN IF permute_between_blocks(par, len)
          THEN Then(permute(par, state),
                    LAMBDA s : squeeze_internal_strict(par, s, 0, len - num_elements_squeezed,
                                                out \o chunk, log \o evs \o <<Permuted>>))
          ELSE squeeze_internal_strict(par, state, 0, len - num_elements_squeezed,
                                out \o chunk, log \o evs)

RECURSIVE squeeze_internal(_, _, _, _, _, _)
squeeze_internal(par, state, rate_start_index, len, out, log) ==
  IF rate_start_index + len <= par.rate
  THEN [ state |-> state,
         mode  |-> Squeezing(rate_start_index + len),
         out   |-> out \o read_chunk(par, state, rate_start_index, len),
         log   |-> log \o read_events(par, rate_start_index, len) ]
  ELSE LET num_elements_squeezed == par.rate - rate_start_index
           chunk == read_chunk(par, state, rate_start_index, num_elements_squeezed)
           evs   == read_events(par, rate_start_index, num_elements_squeezed)
       IN IF permute_between_blocks(par, len)
          THEN Then(permute(par, state),
                    LAMBDA s : squeeze_internal(par, s, 0, len - num_elements_squeezed,
                                                out \o chunk, log \o evs \o <<Permuted>>))
          ELSE squeeze_internal(par, state, 0, len - num_elements_squeezed,
                                out \o chunk, log \o evs)

\* vec![F::zero(); n]
RECURSIVE zeros(_)
zeros(n) == IF n = 0 THEN <<>> ELSE Append(zeros(n - 1), 0)

\* CryptographicSponge::new
new(par) ==
  [ state |-> zeros(par.rate + par.capacity),
    mode  |-> Absorbing(0) ]

\* Mutant of absorb: in absorbing mode the next_absorb_index is ignored and
\* every call starts at rate index 0.
absorb_restart(par, sponge, elems) ==
  IF elems = <<>>
  THEN [state |-> sponge.state, mode |-> sponge.mode, log |-> <<>>]
  ELSE IF sponge.mode.tag = "Absorbing"
       THEN IF sponge.mode.idx = par.rate
            THEN absorb_internal(par, permute(par, sponge.state), 0, elems, <<Permuted>>)
            ELSE absorb_internal(par, sponge.state, 0, elems, <<>>)
       ELSE absorb_internal(par, permute(par, sponge.state), 0, elems, <<Permuted>>)

\* Mutant of absorb: the early return on an empty input is missing.
absorb_no_early_return(par, sponge, elems) ==
  IF sponge.mode.tag = "Absorbing"
  THEN IF sponge.mode.idx = par.rate
       THEN absorb_internal(par, permute(par, sponge.state), 0, elems, <<Permuted>>)
       ELSE absorb_internal(par, sponge.state, sponge.mode.idx, elems, <<>>)
  ELSE absorb_internal(par, permute(par, sponge.state), 0, elems, <<Permuted>>)

\* CryptographicSponge::absorb; elems is the input converted to field elements.
absorb(par, sponge, elems) ==
  IF elems = <<>>
  THEN [state |-> sponge.state, mode |-> sponge.mode, log |-> <<>>]
  ELSE IF sponge.mode.tag = "Absorbing"
       THEN IF sponge.mode.idx = par.rate
            THEN absorb_internal(par, permute(par, sponge.state), 0, elems, <<Permuted>>)
            ELSE absorb_internal(par, sponge.state, sponge.mode.idx, elems, <<>>)
       ELSE absorb_internal(par, permute(par, sponge.state), 0, elems, <<Permuted>>)

\* Mutant of squeeze_native_field_elements: a sponge in absorbing mode is
\* handled like one in squeezing mode (it permutes only on a full block).
squeeze_native_no_switch(par, sponge, num_elements) ==
  IF sponge.mode.idx = par.rate
  THEN squeeze_internal(par, permute(par, sponge.state), 0, num_elements,
                        <<>>, <<Permuted>>)
  ELSE squeeze_internal(par, sponge.state, sponge.mode.idx, num_elements, <<>>, <<>>)

\* Mutant of squeeze_native_field_elements: in squeezing mode the check for
\* a used-up block is missing.
squeeze_native_no_boundary(par, sponge, num_elements) ==
  IF sponge.mode.tag = "Absorbing"
  THEN squeeze_internal(par, permute(par, sponge.state), 0, num_elements, <<>>, <<Permuted>>)
  ELSE squeeze_internal(par, sponge.state, sponge.mode.idx, num_elements, <<>>, <<>>)

\* Mutant of squeeze_native_field_elements: the two arms run one after the
\* other, so a sponge in Absorbing(rate) is permuted for the mode switch and
\* once more for the index it left.
squeeze_native_both_arms(par, sponge, num_elements) ==
  LET switched == IF sponge.mode.tag = "Absorbing"
                  THEN [state |-> permute(par, sponge.state), idx |-> 0, log |-> <<Permuted>>]
                  ELSE [state |-> sponge.state, idx |-> sponge.mode.idx, log |-> <<>>]
  IN IF sponge.mode.idx = par.rate
     THEN squeeze_internal(par, permute(par, switched.state), 0, num_elements,
                           <<>>, switched.log \o <<Permuted>>)
     ELSE squeeze_internal(par, switched.state, switched.idx, num_elements,
                           <<>>, switched.log)

\* FieldBasedCryptographicSponge::squeeze_native_field_elements
squeeze_native_field_elements(par, sponge, num_elements) ==
  IF sponge.mode.tag = "Absorbing"
  THEN squeeze_internal(par, permute(par, sponge.state), 0, num_elements, <<>>, <<Permuted>>)
  ELSE IF sponge.mode.idx = par.rate
       THEN squeeze_internal(par, permute(par, sponge.state), 0, num_elements,
                             <<>>, <<Permuted>>)
       ELSE squeeze_internal(par, sponge.state, sponge.mode.idx, num_elements, <<>>, <<>>)

\* ------------------------------------------------------------- snapshot

\* SpongeExt::into_state
into_state(sponge) == [state |-> sponge.state, mode |-> sponge.mode]

\* Mutant of from_state: the snapshot's mode is not restored.
from_state_no_mode(snapshot, par) ==
  LET sponge == new(par)
  IN Returned([sponge EXCEPT !.state = snapshot.state])

\* SpongeExt::from_state: a new sponge whose mode and state are overwritten
\* by the snapshot's; no statement of it can fail.
from_state(snapshot, par) ==
  LET sponge == new(par)
  IN Returned([[sponge EXCEPT !.mode = snapshot.mode] EXCEPT !.state = snapshot.state])

\* ------------------------------------------------------ output adapters

\* bytes.extend_from_slice(..) / bits.extend_from_slice(..) over every element.
RECURSIVE concat(_)
concat(slices) == IF slices = <<>> THEN <<>> ELSE Head(slices) \o concat(Tail(slices))

\* Vec::truncate: keeps the first n entries, or all when there are fewer.
truncate(s, n) == IF n < Len(s) THEN Take(s, n) ELSE s

usable_bytes(par) == CAPACITY(par) \div 8

usable_bits(par) == CAPACITY(par)

\* CryptographicSponge::squeeze_bytes
squeeze_bytes(par, sponge, num_bytes) ==
  LET num_elements == (num_bytes + usable_bytes(par) - 1) \div usable_bytes(par)
      r == squeeze_native_field_elements(par, sponge, num_elements)
      bytes == concat([i \in 1..Len(r.out) |-> Take(to_bytes_le(r.out[i]), usable_bytes(par))])
  IN [r EXCEPT !.out = truncate(bytes, num_bytes)]

\* CryptographicSponge::squeeze_bits
squeeze_bits(par, sponge, num_bits) ==
  LET num_elements == (num_bits + usable_bits(par) - 1) \div usable_bits(par)
      r == squeeze_native_field_elements(par, sponge, num_elements)
      bits == concat([i \in 1..Len(r.out) |-> Take(to_bits_le(r.out[i]), usable_bits(par))])
  IN [r EXCEPT !.out = truncate(bits, num_bits)]

\* ----------------------------------------------------------------- state

VARIABLES
  parameters,   \* PoseidonSponge::parameters (with the field's modulus)
  state,        \* PoseidonSponge::state
  mode,         \* PoseidonSponge::mode
  last,         \* the latest public call: its name, arguments, the sponge it
                \* started from, its event log and what it returned
  work          \* work done so far: one per call plus the lengths asked

vars == <<parameters, state, mode, last, work>>

Sponge == [state |-> state, mode |-> mode]

\* The record of a call: after names the call made before it (and whether
\* that one had an empty argument), pre is the sponge the call started from.
Call(op, elems, n, r, out) ==
  [ op |-> op, elems |-> elems, n |-> n, pre |-> Sponge, log |-> r.log, out |-> out,
    after |-> [op |-> last.op, empty |-> last.n = 0] ]

Init ==
  /\ parameters \in SmallParameters \cup WideParameters
  /\ state = new(parameters).state
  /\ mode = new(parameters).mode
  /\ last = [ op |-> "new", elems |-> <<>>, n |-> 0,
              pre |-> new(parameters), log |-> <<>>, out |-> <<>>,
              after |-> [op |-> "none", empty |-> TRUE] ]
  /\ work = 0

\* A run stops calling once the next call would exceed MaxWork.
Within(n) == work + 1 + n <= MaxWork

Counted(n) ==
  /\ work' = work + 1 + n
  /\ UNCHANGED parameters

Absorb ==
  \E elems \in Inputs :
    /\ Within(Len(elems))
    /\ \E r \in {absorb(parameters, Sponge, elems)} :
         /\ state' = r.state
         /\ mode' = r.mode
         /\ last' = Call("absorb", elems, Len(elems), r, <<>>)
    /\ Counted(Len(elems))

SqueezeNative ==
  /\ \E n \in 0..MaxSqueeze :
       /\ Within(n)
       /\ \E r \in {squeeze_native_field_elements(parameters, Sponge, n)} :
            /\ state' = r.state
            /\ mode' = r.mode
            /\ last' = Call("squeeze_native_field_elements", <<>>, n, r, r.out)
       /\ Counted(n)

\* squeeze_bytes divides by usable_bytes (line 259): over a field of fewer
\* than nine bits the call panics before it touches the sponge.
SqueezeBytes ==
  /\ usable_bytes(parameters) > 0
  /\ \E n \in 0..MaxBytes :
       /\ Within(n)
       /\ \E r \in {squeeze_bytes(parameters, Sponge, n)} :
            /\ state' = r.state
            /\ mode' = r.mode
            /\ last' = Call("squeeze_bytes", <<>>, n, r, r.out)
       /\ Counted(n)

SqueezeBits ==
  /\ \E n \in 0..MaxBits :
       /\ Within(n)
       /\ \E r \in {squeeze_bits(parameters, Sponge, n)} :
            /\ state' = r.state
            /\ mode' = r.mode
            /\ last' = Call("squeeze_bits", <<>>, n, r, r.out)
       /\ Counted(n)

Next == Absorb \/ SqueezeNative \/ SqueezeBytes \/ SqueezeBits

Spec == Init /\ [][Next]_vars

\* ------------------------------------------ constructing the parameters

\* Rows of the lengths offered to PoseidonParameters::new.
RowOf(n) == [i \in 1..n |-> i % 2]

\* Matrices of at most MaxRows rows, each of two or three elements (ragged
\* ones included).
Matrices == SeqsUpTo({RowOf(2), RowOf(3)}, MaxRows)

\* The arguments of one PoseidonParameters::new call, with the build profile.
NewArguments ==
  [ overflow_checks : BOOLEAN,
    full_rounds     : {0, 2, usize_max},
    partial_rounds  : {0, 1},
    alpha           : {3},
    mds             : Matrices,
    ark             : Matrices,
    rate            : {1, 2, usize_max},
    capacity        : {1} ]

\* A call of PoseidonParameters::new is about to be made with last.elems.
ParametersInit ==
  /\ parameters = PoseidonParameters(SmallModulus, 2, 1)
  /\ state = new(parameters).state
  /\ mode = new(parameters).mode
  /\ last \in [ op : {"arguments"}, elems : NewArguments, n : {0}, pre : {new(parameters)},
                log : {<<>>}, out : {Panicked},
                after : {[op |-> "none", empty |-> TRUE]} ]
  /\ work = 0

NewParameters ==
  /\ last.op = "arguments"
  /\ last' = [last EXCEPT
                !.op = "PoseidonParameters::new",
                !.out = PoseidonParameters_new(
                          last.elems.overflow_checks, last.elems.full_rounds,
                          last.elems.partial_rounds, last.elems.alpha, last.elems.mds,
                          last.elems.ark, last.elems.rate, last.elems.capacity)]
  /\ work' = work + 1
  /\ UNCHANGED <<parameters, state, mode>>

ParametersNext == NewParameters

ParametersSpec == ParametersInit /\ [][ParametersNext]_vars

\* ------------------------------------------------------ the permutation

\* Round counts (full_rounds, partial_rounds) of the parameters permute is
\* applied with; full_rounds is odd in some.
RoundCounts == { <<2, 1>>, <<3, 1>>, <<1, 2>>, <<2, 0>>, <<0, 1>>, <<4, 1>>, <<3, 2>> }

PermuteParameters == { RoundParameters(SmallModulus, c[1], c[2]) : c \in RoundCounts }

\* permute is about to be applied to a sponge with any state vector.
PermuteInit ==
  /\ parameters \in PermuteParameters
  /\ state \in [1..(parameters.rate + parameters.capacity) -> 0..(SmallModulus - 1)]
  /\ mode = Absorbing(0)
  /\ last = [ op |-> "new", elems |-> <<>>, n |-> 0,
              pre |-> new(parameters), log |-> <<>>, out |-> <<>>,
              after |-> [op |-> "none", empty |-> TRUE] ]
  /\ work = 0

Permute ==
  /\ last.op = "new"
  /\ state' = permute(parameters, state)
  /\ last' = [ op |-> "permute", elems |-> round_numbers(parameters), n |-> 0,
               pre |-> Sponge, log |-> <<Permuted>>, out |-> <<>>,
               after |-> [op |-> last.op, empty |-> TRUE] ]
  /\ work' = work + 1
  /\ UNCHANGED <<parameters, mode>>

PermuteNext == Permute

PermuteSpec == PermuteInit /\ [][PermuteNext]_vars

\* ------------------------------------------ one absorb, then one squeeze

\* The run of the consistency test: a new sponge, one absorb, one
\* squeeze_native_field_elements.  The squeeze's record keeps the absorbed
\* elements and the log of the whole run.
ScheduleInit == Init

ScheduleAbsorb ==
  /\ last.op = "new"
  /\ \E elems \in Inputs :
     \E r \in {absorb(parameters, Sponge, elems)} :
       /\ state' = r.state
       /\ mode' = r.mode
       /\ last' = Call("absorb", elems, Len(elems), r, <<>>)
  /\ work' = work + 1
  /\ UNCHANGED parameters

ScheduleSqueeze ==
  /\ last.op = "absorb"
  /\ \E n \in 0..MaxSqueeze :
     \E r \in {squeeze_native_field_elements(parameters, Sponge, n)} :
       /\ state' = r.state
       /\ mode' = r.mode
       /\ last' = [ Call("squeeze_native_field_elements", last.elems, n, r, r.out)
                      EXCEPT !.log = last.log \o r.log ]
  /\ work' = work + 1
  /\ UNCHANGED parameters

ScheduleNext == ScheduleAbsorb \/ ScheduleSqueeze

ScheduleSpec == ScheduleInit /\ [][ScheduleNext]_vars

\* ------------------------------------------------- snapshot and resumption

\* Field elements a snapshot's state vector is made of.
SnapshotElems == {0, 1, SmallModulus - 1}

\* The snapshots handed to from_state: state vectors of the parameters'
\* width, one shorter and one longer, with every mode of index 0..rate.
Snapshots(par) ==
  [ state : UNION { [1..w -> SnapshotElems] :
                      w \in (par.rate + par.capacity - 1)..(par.rate + par.capacity + 1) },
    mode  : {Absorbing(i) : i \in 0..par.rate} \cup {Squeezing(i) : i \in 0..par.rate} ]

SnapshotInit ==
  /\ parameters \in SmallParameters
  /\ state = new(parameters).state
  /\ mode = new(parameters).mode
  /\ last = [ op |-> "new", elems |-> into_state(new(parameters)), n |-> 0,
              pre |-> new(parameters), log |-> <<>>, out |-> Returned(new(parameters)),
              after |-> [op |-> "none", empty |-> TRUE] ]
  /\ work = 0

\* from_state on a snapshot the caller supplies.
FromState ==
  \E snapshot \in Snapshots(parameters) :
    /\ Within(Len(snapshot.state))
    /\ \E r \in {from_state(snapshot, parameters)} :
         /\ state' = r.value.state
         /\ mode' = r.value.mode
         /\ last' = [ op |-> "from_state", elems |-> snapshot, n |-> Len(snapshot.state),
                      pre |-> Sponge, log |-> <<>>, out |-> r,
                      after |-> [op |-> last.op, empty |-> last.n = 0] ]
    /\ Counted(Len(snapshot.state))

\* into_state on the sponge, then from_state on the snapshot it gave.
Resume ==
  /\ Within(0)
  /\ \E r \in {from_state(into_state(Sponge), parameters)} :
       /\ state' = r.value.state
       /\ mode' = r.value.mode
       /\ last' = [ op |-> "resume", elems |-> into_state(Sponge), n |-> 0,
                    pre |-> Sponge, log |-> <<>>, out |-> r,
                    after |-> [op |-> last.op, empty |-> last.n = 0] ]
  /\ Counted(0)

\* absorb and squeeze_native_field_elements on a sponge as wide as its
\* parameters say; a sponge that from_state gave another width is not
\* called further.
SnapshotAbsorb ==
  /\ Len(state) = parameters.rate + parameters.capacity
  /\ Absorb

SnapshotSqueeze ==
  /\ Len(state) = parameters.rate + parameters.capacity
  /\ SqueezeNative

SnapshotNext == FromState \/ Resume \/ SnapshotAbsorb \/ SnapshotSqueeze

SnapshotSpec == SnapshotInit /\ [][SnapshotNext]_vars

\* ------------------------------------------------- reading a call's record

SqueezeOps == {"squeeze_native_field_elements", "squeeze_bytes", "squeeze_bits"}

Positions(log, ev) == {i \in 1..Len(log) : log[i].ev = ev}

Least(S) == CHOOSE m \in S : \A k \in S : m <= k

\* Number of permutations a call performed.
Permutes(log) == Cardinality(Positions(log, "permute"))

\* Number of permutations a call performed before its first event ev (in
\* the whole call when it has no such event).
PermutesBeforeFirst(log, ev) ==
  LET stop == IF Positions(log, ev) = {} THEN Len(log) + 1 ELSE Least(Positions(log, ev))
  IN Cardinality({i \in Positions(log, "permute") : i < stop})

\* Number of permutations a call performed after its first event ev.
PermutesAfterFirst(log, ev) ==
  IF Positions(log, ev) = {} THEN 0
  ELSE Cardinality({i \in Positions(log, "permute") : i > Least(Positions(log, ev))})

RateSlots(par) == par.capacity .. (par.capacity + par.rate - 1)

CapacityPart(par, st) == SubSeq(st, 1, par.capacity)

RatePart(par, st) == SubSeq(st, par.capacity + 1, par.capacity + par.rate)

\* A byte sequence as bits, each byte least significant bit first.
bytes_to_bits(bytes) == concat([i \in 1..Len(bytes) |-> Take(to_bits_le(bytes[i]), 8)])

CeilDiv(a, b) == (a + b - 1) \div b

\* Position in log of the event ev number k (from 0).
NthPosition(log, ev, k) ==
  CHOOSE p \in Positions(log, ev) : Cardinality({q \in Positions(log, ev) : q < p}) = k

\* Number of permutations logged before position p.
PermutesBefore(log, p) == Cardinality({i \in Positions(log, "permute") : i < p})

\* The permutation applied k times.
RECURSIVE permute_times(_, _, _)
permute_times(par, st, k) ==
  IF k = 0 THEN st
  ELSE Then(permute_times(par, st, k - 1), LAMBDA s : permute(par, s))

\* ---------------------------------------------------------------- claims

\* C1: absorb(a) followed by absorb(b), with no squeeze in between, leaves
\* the same state vector and mode as absorb(a \o b) from the same starting
\* sponge; a is the absorb call just made, b ranges over every input.
C1_AbsorbConcatenation ==
  last.op = "absorb" =>
    \A b \in Inputs :
      \E two \in {absorb(parameters, Sponge, b)} :
      \E one \in {absorb(parameters, last.pre, last.elems \o b)} :
        two.state = one.state /\ two.mode = one.mode

\* C1 witness: a non-empty absorb made in squeezing mode that filled the
\* block exactly, so that any further element crosses the block boundary.
C1_Witness ==
  /\ last.op = "absorb"
  /\ last.elems # <<>>
  /\ last.pre.mode.tag = "Squeezing"
  /\ mode = Absorbing(parameters.rate)

\* C2 as stated: a squeeze made right after an absorb call (of any input)
\* performs exactly one permutation before its first output element is read,
\* and an absorb call made right after a squeeze performs exactly one
\* permutation before its first input element is added.
C2_AsStated ==
  /\ (/\ last.after.op = "absorb"
      /\ last.op \in SqueezeOps
      /\ Positions(last.log, "read") # {})
       => PermutesBeforeFirst(last.log, "read") = 1
  /\ (/\ last.after.op \in SqueezeOps
      /\ last.op = "absorb"
      /\ Positions(last.log, "add") # {})
       => PermutesBeforeFirst(last.log, "add") = 1

\* C2 amended: a squeeze made right after a non-empty absorb performs
\* exactly one permutation before its first output element is read, and a
\* non-empty absorb made in squeezing mode (after a squeeze, whatever its
\* index) performs exactly one permutation before its first input element
\* is added.
C2_ModeTransitions ==
  /\ (last.after.op = "absorb" /\ ~last.after.empty /\ last.op \in SqueezeOps)
       => PermutesBeforeFirst(last.log, "read") = 1
  /\ (last.pre.mode.tag = "Squeezing" /\ last.op = "absorb" /\ last.elems # <<>>)
       => PermutesBeforeFirst(last.log, "add") = 1

\* C2 witness: a non-empty absorb made right after a squeeze that had left
\* the sponge in the middle of a block.
C2_Witness ==
  /\ last.op = "absorb"
  /\ last.elems # <<>>
  /\ last.after.op = "squeeze_native_field_elements"
  /\ last.pre.mode.tag = "Squeezing"
  /\ last.pre.mode.idx > 0
  /\ last.pre.mode.idx < parameters.rate

\* C3 as stated: for every n, squeeze_bytes(n) expanded to bits equals
\* squeeze_bits(8 n) made from the same sponge.
C3_AsStated ==
  last.op = "squeeze_bytes" =>
    bytes_to_bits(last.out) = squeeze_bits(parameters, last.pre, 8 * last.n).out

\* C3 amended: squeeze_bytes(n) expanded to bits equals squeeze_bits(8 n)
\* made from the same sponge whenever n is at most CAPACITY / 8 (one element
\* serves the request) or CAPACITY is a multiple of 8.
C3_BytesAgreeWithBits ==
  (/\ last.op = "squeeze_bytes"
   /\ \/ last.n <= usable_bytes(parameters)
      \/ usable_bits(parameters) % 8 = 0)
  => bytes_to_bits(last.out) = squeeze_bits(parameters, last.pre, 8 * last.n).out

\* C3 witness: a whole byte was squeezed from a field whose capacity is not
\* a multiple of 8.
C3_Witness ==
  /\ last.op = "squeeze_bytes"
  /\ last.n = usable_bytes(parameters)
  /\ usable_bits(parameters) % 8 # 0
  /\ Len(last.out) = last.n

\* C4: after any sequence of calls the mode is Absorbing(i) or Squeezing(i)
\* with 0 <= i <= rate.
C4_ModeIndexBound ==
  /\ mode.tag \in {"Absorbing", "Squeezing"}
  /\ 0 <= mode.idx
  /\ mode.idx <= parameters.rate

\* C4 witness: a squeeze that crossed a block boundary ended on index rate.
C4_Witness ==
  /\ last.op = "squeeze_native_field_elements"
  /\ last.n > parameters.rate
  /\ mode = Squeezing(parameters.rate)

\* C5: a new sponge holds rate + capacity zeros in mode Absorbing(0), and the
\* state vector keeps exactly rate + capacity elements after every call.
C5_StateWidth ==
  /\ Len(state) = parameters.rate + parameters.capacity
  /\ last.op = "new" =>
       /\ \A i \in 1..Len(state) : state[i] = 0
       /\ mode = Absorbing(0)

\* C5 witness: a call that permuted more than once.
C5_Witness ==
  /\ Permutes(last.log) >= 2
  /\ Len(state) = parameters.rate + parameters.capacity

\* C6: absorb adds only into indices [capacity, capacity + rate), squeeze
\* copies only from those indices, and the elements at [0, capacity) change
\* only when the call permutes.
C6_CapacityFrame ==
  /\ \A i \in Positions(last.log, "add") : last.log[i].at \in RateSlots(parameters)
  /\ \A i \in Positions(last.log, "read") : last.log[i].at \in RateSlots(parameters)
  /\ Permutes(last.log) = 0
       => CapacityPart(parameters, state) = CapacityPart(parameters, last.pre.state)

\* C6 witness: an absorb that added into the rate section of a sponge whose
\* capacity section is not all zero, without permuting.
C6_Witness ==
  /\ last.op = "absorb"
  /\ Positions(last.log, "add") # {}
  /\ Permutes(last.log) = 0
  /\ \E i \in 1..parameters.capacity : state[i] # 0

\* C7: an absorb of an input that converts to no field element performs no
\* permutation and leaves the state vector and the mode unchanged.
C7_EmptyAbsorbNoOp ==
  (last.op = "absorb" /\ last.elems = <<>>) =>
    /\ Permutes(last.log) = 0
    /\ state = last.pre.state
    /\ mode = last.pre.mode

\* C7 witness: an empty absorb on a sponge whose block is full, where a
\* non-empty absorb would permute first.
C7_Witness ==
  /\ last.op = "absorb"
  /\ last.elems = <<>>
  /\ last.pre.mode.idx = parameters.rate

\* C8 as stated: a squeeze of zero elements, bytes or bits returns the empty
\* output, performs no permutation and changes neither state nor mode.
C8_AsStated ==
  (last.op \in SqueezeOps /\ last.n = 0) =>
    /\ last.out = <<>>
    /\ Permutes(last.log) = 0
    /\ state = last.pre.state
    /\ mode = last.pre.mode

\* C8 amended: a squeeze of zero elements, bytes or bits returns the empty
\* output; made in Squeezing(i) with i < rate it performs no permutation
\* and changes neither state nor mode; made in Absorbing(i) or in
\* Squeezing(rate) it performs exactly one permutation and leaves the
\* sponge in Squeezing(0).
C8_ZeroLengthSqueeze ==
  (last.op \in SqueezeOps /\ last.n = 0) =>
    /\ last.out = <<>>
    /\ IF last.pre.mode.tag = "Squeezing" /\ last.pre.mode.idx < parameters.rate
       THEN /\ Permutes(last.log) = 0
            /\ state = last.pre.state
            /\ mode = last.pre.mode
       ELSE /\ last.log = <<Permuted>>
            /\ state = permute(parameters, last.pre.state)
            /\ mode = Squeezing(0)

\* C8 witness: a squeeze of zero elements made on a sponge that had squeezed
\* its whole block.
C8_Witness ==
  /\ last.op \in SqueezeOps
  /\ last.n = 0
  /\ last.pre.mode = Squeezing(parameters.rate)

\* C9: an absorb of exactly rate elements that starts at rate index 0 (from
\* Absorbing(0), Absorbing(rate) or any squeezing mode) ends in
\* Absorbing(rate) without permuting after its additions; the next non-empty
\* absorb or squeeze then begins with exactly one permutation.
C9_DeferredPermutation ==
  /\ (/\ last.op = "absorb"
      /\ Len(last.elems) = parameters.rate
      /\ \/ last.pre.mode.tag = "Squeezing"
         \/ last.pre.mode.idx \in {0, parameters.rate})
     => /\ mode = Absorbing(parameters.rate)
        /\ PermutesAfterFirst(last.log, "add") = 0
  /\ (/\ last.pre.mode = Absorbing(parameters.rate)
      /\ \/ last.op = "absorb" /\ last.elems # <<>>
         \/ last.op \in SqueezeOps)
     => /\ Head(last.log) = Permuted
        /\ PermutesBeforeFirst(last.log, IF last.op = "absorb" THEN "add" ELSE "read") = 1

\* C9 witness: a full block absorbed right after another absorb had left
\* the block full.
C9_Witness ==
  /\ last.op = "absorb"
  /\ last.after.op = "absorb"
  /\ Len(last.elems) = parameters.rate
  /\ last.pre.mode = Absorbing(parameters.rate)
  /\ mode = Absorbing(parameters.rate)

\* C10: a squeeze of exactly rate elements made in Absorbing(_), Squeezing(0)
\* or Squeezing(rate) performs no permutation after its first read, returns
\* the rate section of one state, and ends in Squeezing(rate).
C10_FullBlockSqueeze ==
  (/\ last.op = "squeeze_native_field_elements"
   /\ last.n = parameters.rate
   /\ \/ last.pre.mode.tag = "Absorbing"
      \/ last.pre.mode.idx \in {0, parameters.rate})
  => /\ PermutesAfterFirst(last.log, "read") = 0
     /\ last.out = RatePart(parameters, state)
     /\ mode = Squeezing(parameters.rate)

\* C10 witness: a full block squeezed right after the previous block had
\* been squeezed whole.
C10_Witness ==
  /\ last.op = "squeeze_native_field_elements"
  /\ last.n = parameters.rate
  /\ last.pre.mode = Squeezing(parameters.rate)

\* The four shape conditions of PoseidonParameters::new on arguments a.
ShapesMatch(a) ==
  /\ Len(a.ark) = a.full_rounds + a.partial_rounds
  /\ \A i \in 1..Len(a.ark) : Len(a.ark[i]) = a.rate + a.capacity
  /\ Len(a.mds) = a.rate + a.capacity
  /\ \A i \in 1..Len(a.mds) : Len(a.mds[i]) = a.rate + a.capacity

\* The seven inputs of PoseidonParameters::new among the arguments a.
SevenInputs(a) ==
  [ full_rounds |-> a.full_rounds, partial_rounds |-> a.partial_rounds, alpha |-> a.alpha,
    mds |-> a.mds, ark |-> a.ark, rate |-> a.rate, capacity |-> a.capacity ]

\* C11 as stated: PoseidonParameters::new panics whenever one of the four
\* shape conditions fails, and returns the seven inputs unchanged whenever
\* all four hold.
C11_AsStated ==
  last.op = "PoseidonParameters::new" =>
    IF ShapesMatch(last.elems)
    THEN ~last.out.panicked /\ last.out.value = SevenInputs(last.elems)
    ELSE last.out.panicked

\* C11 without overflow: when neither full_rounds + partial_rounds nor
\* rate + capacity exceeds usize, or the build checks overflow, the call
\* panics exactly when a shape condition fails and otherwise returns the
\* seven inputs.
C11_ShapesChecked ==
  (/\ last.op = "PoseidonParameters::new"
   /\ \/ last.elems.overflow_checks
      \/ /\ last.elems.full_rounds + last.elems.partial_rounds <= usize_max
         /\ last.elems.rate + last.elems.capacity <= usize_max)
  => IF ShapesMatch(last.elems)
     THEN ~last.out.panicked /\ last.out.value = SevenInputs(last.elems)
     ELSE last.out.panicked

\* C11 witness: well-shaped arguments were accepted.
C11_Witness ==
  /\ last.op = "PoseidonParameters::new"
  /\ ShapesMatch(last.elems)
  /\ Len(last.elems.ark) = 3
  /\ ~last.out.panicked

\* C12 as stated: from_state fails whenever the snapshot's state vector is
\* not rate + capacity long, and never returns a sponge whose state vector
\* is not rate + capacity long.
C12_AsStated ==
  last.op = "from_state" =>
    /\ Len(last.elems.state) # parameters.rate + parameters.capacity => last.out.panicked
    /\ ~last.out.panicked => Len(last.out.value.state) = parameters.rate + parameters.capacity

\* C12 witness: from_state was handed a snapshot one element short.
C12_Witness ==
  /\ last.op = "from_state"
  /\ Len(last.elems.state) = parameters.rate + parameters.capacity - 1

\* C13: from a new sponge, an absorb of n >= 1 elements followed by a
\* squeeze of m >= 1 elements permutes (ceil(n/rate) - 1) + ceil(m/rate)
\* times; input element k is added into rate slot k mod rate after
\* floor(k/rate) permutations, and output element j is rate slot j mod rate
\* of the state after ceil(n/rate) + floor(j/rate) permutations.
C13_AbsorbThenSqueeze ==
  (/\ last.op = "squeeze_native_field_elements"
   /\ last.elems # <<>>
   /\ last.n >= 1)
  => LET n    == Len(last.elems)
         m    == last.n
         rate == parameters.rate
     IN /\ Permutes(last.log) = (CeilDiv(n, rate) - 1) + CeilDiv(m, rate)
        /\ Cardinality(Positions(last.log, "add")) = n
        /\ Cardinality(Positions(last.log, "read")) = m
        /\ \A k \in 0..(n - 1) :
             LET p == NthPosition(last.log, "add", k)
             IN /\ last.log[p].at = parameters.capacity + (k % rate)
                /\ PermutesBefore(last.log, p) = k \div rate
        /\ \A j \in 0..(m - 1) :
             LET p == NthPosition(last.log, "read", j)
             IN /\ last.log[p].at = parameters.capacity + (j % rate)
                /\ PermutesBefore(last.log, p) = CeilDiv(n, rate) + (j \div rate)
                /\ last.out[j + 1] =
                     permute_times(parameters, last.pre.state, 1 + (j \div rate))
                       [parameters.capacity + (j % rate) + 1]

\* C13 witness: the consistency test's run, three elements absorbed and
\* three squeezed at rate 2.
C13_Witness ==
  /\ last.op = "squeeze_native_field_elements"
  /\ parameters.rate = 2
  /\ Len(last.elems) = 3
  /\ last.n = 3
  /\ Permutes(last.log) = 3

\* C14: into_state followed by from_state with the sponge's own parameters
\* gives a sponge with the same state vector and the same mode, and every
\* absorb or squeeze made next returns the same on it as on the sponge it
\* was taken from.
C14_SnapshotRoundTrip ==
  last.op = "resume" =>
    /\ ~last.out.panicked
    /\ state = last.pre.state
    /\ mode = last.pre.mode
    /\ Len(last.pre.state) = parameters.rate + parameters.capacity =>
         /\ \A n \in 0..MaxSqueeze :
              squeeze_native_field_elements(parameters, Sponge, n).out
                = squeeze_native_field_elements(parameters, last.pre, n).out
         /\ \A elems \in Inputs :
              squeeze_native_field_elements(
                  parameters, into_state(absorb(parameters, Sponge, elems)), 1).out
                = squeeze_native_field_elements(
                    parameters, into_state(absorb(parameters, last.pre, elems)), 1).out

\* C14 witness: a sponge was resumed in the middle of a squeezed block.
C14_Witness ==
  /\ last.op = "resume"
  /\ last.after.op = "squeeze_native_field_elements"
  /\ last.pre.mode.tag = "Squeezing"
  /\ last.pre.mode.idx > 0
  /\ last.pre.mode.idx < parameters.rate
  /\ mode = last.pre.mode

\* C15: every absorb of n elements and every squeeze_native_field_elements(n)
\* returns after adding (reading) exactly n elements and at most
\* ceil(n/rate) + 1 permutations.
C15_PermutationBound ==
  /\ last.op = "absorb" =>
       /\ Cardinality(Positions(last.log, "add")) = last.n
       /\ Permutes(last.log) <= CeilDiv(last.n, parameters.rate) + 1
  /\ last.op = "squeeze_native_field_elements" =>
       /\ Cardinality(Positions(last.log, "read")) = last.n
       /\ Len(last.out) = last.n
       /\ Permutes(last.log) <= CeilDiv(last.n, parameters.rate) + 1

\* C15 witness: a squeeze of more than one block made in Absorbing(rate),
\* which permuted once per block.
C15_Witness ==
  /\ last.op = "squeeze_native_field_elements"
  /\ last.pre.mode = Absorbing(parameters.rate)
  /\ last.n > parameters.rate
  /\ Permutes(last.log) = CeilDiv(last.n, parameters.rate)

\* S_r of C16: every element to the power alpha in a full round, element 0
\* only in a partial round.
SBoxOfRound(par, v, r) ==
  LET h == par.full_rounds \div 2
  IN IF r < h \/ r >= h + par.partial_rounds
     THEN [i \in 1..Len(v) |-> pow(par, v[i], par.alpha)]
     ELSE [i \in 1..Len(v) |-> IF i = 1 THEN pow(par, v[i], par.alpha) ELSE v[i]]

RECURSIVE DotProduct(_, _, _, _)
DotProduct(par, row, v, j) ==
  IF j = 0 THEN 0 ELSE (DotProduct(par, row, v, j - 1) + row[j] * v[j]) % par.modulus

\* mds . S_r(v + ark[r])
RoundOfClaim(par, v, r) ==
  LET keyed == [i \in 1..Len(v) |-> (v[i] + par.ark[r + 1][i]) % par.modulus]
      boxed == SBoxOfRound(par, keyed, r)
  IN [i \in 1..Len(v) |-> DotProduct(par, par.mds[i], boxed, Len(v))]

\* Rounds 0 .. r - 1 of C16, in increasing order.
RECURSIVE RoundsOfClaim(_, _, _)
RoundsOfClaim(par, v, r) ==
  IF r = 0 THEN v
  ELSE Then(RoundsOfClaim(par, v, r - 1), LAMBDA s : RoundOfClaim(par, s, r - 1))

\* C16: permute applies rounds 0, 1, ..., full_rounds + partial_rounds - 1,
\* each once and in this order, round r computing mds . S_r(state + ark[r])
\* from the state before it, with S_r full for r < h or r >= h +
\* partial_rounds and partial otherwise (h = full_rounds div 2); no other
\* ark row is read, also when full_rounds is odd.
C16_PermutationSchedule ==
  last.op = "permute" =>
    /\ last.elems = range(0, parameters.full_rounds + parameters.partial_rounds)
    /\ \A k \in 1..Len(last.elems) :
         last.elems[k] >= 0 /\ last.elems[k] < Len(parameters.ark)
    /\ state = RoundsOfClaim(parameters, last.pre.state,
                             parameters.full_rounds + parameters.partial_rounds)

\* C16 witness: a permutation with an odd number of full rounds changed a
\* non-zero state.
C16_Witness ==
  /\ last.op = "permute"
  /\ parameters.full_rounds = 3
  /\ last.pre.state = <<1, 2, 3>>
  /\ state # last.pre.state

C18_SqueezeWithinBlock ==
  (/\ last.op = "squeeze_native_field_elements"
   /\ last.pre.mode.tag = "Squeezing"
   /\ last.pre.mode.idx < parameters.rate
   /\ last.pre.mode.idx + last.n <= parameters.rate)
  => /\ Permutes(last.log) = 0
     /\ state = last.pre.state
     /\ Len(last.out) = last.n
     /\ \A j \in 1..last.n :
          last.out[j] = last.pre.state[parameters.capacity + last.pre.mode.idx + j]
     /\ mode = Squeezing(last.pre.mode.idx + last.n)

\* C18 witness: one element squeezed from the middle of a block.
C18_Witness ==
  /\ last.op = "squeeze_native_field_elements"
  /\ last.pre.mode.tag = "Squeezing"
  /\ last.pre.mode.idx > 0
  /\ last.pre.mode.idx < parameters.rate
  /\ last.n = 1
  /\ last.out # <<0>>

\* C19 as stated: squeeze_native_field_elements(a) followed by
\* squeeze_native_field_elements(b) returns, concatenated, what one
\* squeeze_native_field_elements(a + b) returns from the same sponge, and
\* the two sponges left behind return the same for every further squeeze;
\* a is the squeeze just made, b ranges over every count.
C19_AsStated ==
  last.op = "squeeze_native_field_elements" =>
    \A b \in 0..MaxSqueeze :
      LET two == squeeze_native_field_elements(parameters, Sponge, b)
          one == squeeze_native_field_elements(parameters, last.pre, last.n + b)
      IN /\ last.out \o two.out = one.out
         /\ \A c \in 0..MaxSqueeze :
              squeeze_native_field_elements(parameters, into_state(two), c).out
                = squeeze_native_field_elements(parameters, into_state(one), c).out

\* C19 witness: a squeeze that stopped in the middle of a block, from where
\* a further squeeze of rate elements crosses the block boundary.
C19_Witness ==
  /\ last.op = "squeeze_native_field_elements"
  /\ last.n > 0
  /\ mode.tag = "Squeezing"
  /\ mode.idx > 0
  /\ mode.idx < parameters.rate

\* C20 as stated: over squeeze calls with no absorb in between, no rate slot
\* is copied out twice between two consecutive permutations (in squeezing
\* mode Squeezing(i) the slots below i have been copied out since the last
\* permutation), and a read of rate slot 0 that follows a read of rate slot
\* rate - 1 has a permutation between the two.
C20_AsStated ==
  last.op \in SqueezeOps =>
    LET reads == Positions(last.log, "read")
        PermutedBetween(p, q) == \E k \in Positions(last.log, "permute") : p < k /\ k < q
    IN /\ \A p \in reads :
            (last.pre.mode.tag = "Squeezing" /\ PermutesBefore(last.log, p) = 0)
              => last.log[p].at >= parameters.capacity + last.pre.mode.idx
       /\ \A p, q \in reads :
            (p < q /\ last.log[p].at = last.log[q].at) => PermutedBetween(p, q)
       /\ \A p, q \in reads :
            (/\ p < q
             /\ last.log[p].at = parameters.capacity + parameters.rate - 1
             /\ last.log[q].at = parameters.capacity)
            => PermutedBetween(p, q)

\* C20 witness: a squeeze made in the middle of a block read rate slot 0
\* again without any permutation.
C20_Witness ==
  /\ last.op = "squeeze_native_field_elements"
  /\ last.pre.mode.tag = "Squeezing"
  /\ last.pre.mode.idx > 0
  /\ Permutes(last.log) = 0
  /\ \E p \in Positions(last.log, "read") : last.log[p].at = parameters.capacity

====
